---- MODULE Spec2Model ----
(***************************************************************************)
(* Ownership model of the lifetime-management examples.                    *)
(*                                                                         *)
(* Each example is an independent program.  Init chooses which program     *)
(* runs (variable example) and the record its main constructs; the actions *)
(* of the other programs are then never enabled.                           *)
(*                                                                         *)
(* Memory is modelled as the Rust abstract machine sees it: bindings are   *)
(* slots that are live, moved-from or dropped; owned heap buffers (String  *)
(* bytes, Vec buffers, ArcInner blocks) live in mem.heap; mem.log records  *)
(* every allocation ever made, so a deep copy is observable.               *)
(***************************************************************************)
EXTENDS Integers, Sequences, FiniteSets, TLC

VARIABLES
    example,   \* which program runs: "A", "C", "D", "E" or "F"
    input,     \* the field values main's struct literal is built from
    pc,        \* main's position
    locals,    \* binding name -> slot
    mem,       \* [heap: pointer -> object, log: kinds of all allocations made,
               \*  incs, decs: strong-count increments and decrements performed]
    touched,   \* the bindings the last executed statement named
    stdout,    \* lines printed
    status,    \* "running", "exit0" (normal return of main), "panic" (exit code 101)
               \* or "abort" (handle_alloc_error: SIGABRT, nothing is unwound)
    memLimit,  \* the largest request, in bytes, the machine's allocator grants
    task,      \* Example F: the spawned task
    counts     \* Example F: [spawns, awaits, sends]

vars == <<example, memLimit, input, pc, locals, mem, touched, stdout, status, task, counts>>

----------------------------------------------------------------------------
(* Bounds of the input domain *)

MaxPathLen == 3

Alphabet == {"a", "/"}

PathInputs == UNION {[1..k -> Alphabet] : k \in 0..MaxPathLen}

\* "/etc/nginx/nginx.conf"
NginxPath == <<"/", "e", "t", "c", "/", "n", "g", "i", "n", "x", "/",
               "n", "g", "i", "n", "x", ".", "c", "o", "n", "f">>

----------------------------------------------------------------------------
(* usize arithmetic.  A usize is written in limbs of base 10^7, most       *)
(* significant first, because usize::MAX does not fit TLC's 32-bit integers.*)

LimbBase == 10000000

\* usize::MAX = 2^64 - 1 = 18446744073709551615
USIZE_MAX == <<184467, 4407370, 9551615>>

\* n / 10000000 : integer division by the limb base drops the last limb
DivLimbBase(n) == IF Len(n) = 1 THEN <<0>> ELSE SubSeq(n, 1, Len(n) - 1)

\* const CAPACITY: usize = usize::MAX / 10000000;   (= 1844674407370)
CAPACITY == DivLimbBase(USIZE_MAX)

UsizeZero == <<0>>

\* A small number as a usize
Usize(k) == <<k>>

\* a < b on usize
UsizeLess(a, b) ==
    IF Len(a) # Len(b) THEN Len(a) < Len(b)
    ELSE \E i \in 1..Len(a) : a[i] < b[i] /\ \A j \in 1..(i - 1) : a[j] = b[j]

\* n * k for a small k; i is the limb being multiplied, least significant first
RECURSIVE MulLimbs(_, _, _, _)
MulLimbs(n, k, i, carry) ==
    IF i = 0 THEN (IF carry = 0 THEN <<>> ELSE <<carry>>)
    ELSE LET p == n[i] * k + carry
         IN  Append(MulLimbs(n, k, i - 1, p \div LimbBase), p % LimbBase)

UsizeMul(n, k) == MulLimbs(n, k, Len(n), 0)

\* size_of::<String>() and size_of::<Worker>() on a 64-bit target
SizeOfString == 24
SizeOfWorker == 8

CapInputs == {UsizeZero, <<7>>, CAPACITY}

\* The machines the examples run on: one whose allocator refuses a request
\* beyond its 15 GiB of memory, and one that grants any request (overcommit).
MemLimits == {<<1610, 6127360>>, USIZE_MAX}

----------------------------------------------------------------------------
(* Slots of bindings *)

Uninit == [st |-> "uninit"]
Moved == [st |-> "moved"]
Dropped == [st |-> "dropped"]
Live(v) == [st |-> "live", val |-> v]

IsLive(l, b) == b \in DOMAIN l /\ l[b].st = "live"

\* A move that leaves the source usable: what a by-reference language does.
MoveAliasing(l, from, to) == [l EXCEPT ![to] = l[from]]

\* Passing or binding by value: the bits go to `to`, `from` becomes invalid.
Move(l, from, to) == [l EXCEPT ![to] = l[from], ![from] = Moved]

----------------------------------------------------------------------------
(* Heap *)

EmptyMem == [heap |-> <<>>, log |-> <<>>, incs |-> 0, decs |-> 0]

Alloc(m, obj) ==
    LET p == Len(m.log) + 1
    IN  [mem |-> [m EXCEPT !.heap = m.heap @@ (p :> obj), !.log = Append(m.log, obj.kind)],
         ptr |-> p]

Free(m, p) ==
    [m EXCEPT !.heap = [q \in (DOMAIN m.heap) \ {p} |-> m.heap[q]]]

AllocCount(m, kind) == Cardinality({i \in 1..Len(m.log) : m.log[i] = kind})

LiveCount(m, kind) == Cardinality({p \in DOMAIN m.heap : m.heap[p].kind = kind})

\* String::from(literal): an empty String owns no buffer.
StringFrom(m, bytes) ==
    IF Len(bytes) = 0
    THEN [mem |-> m, val |-> [ptr |-> 0, len |-> 0, cap |-> 0]]
    ELSE LET a == Alloc(m, [kind |-> "str", bytes |-> bytes])
         IN  [mem |-> a.mem,
              val |-> [ptr |-> a.ptr, len |-> Len(bytes), cap |-> Len(bytes)]]

\* The bytes a String denotes.
Bytes(m, s) == IF s.len = 0 THEN <<>> ELSE SubSeq(m.heap[s.ptr].bytes, 1, s.len)

\* String::clone: a new buffer holding the same bytes.
StringClone(m, s) == StringFrom(m, Bytes(m, s))

\* String::is_empty
is_empty(s) == s.len = 0

DropString(m, s) == IF s.ptr = 0 THEN m ELSE Free(m, s.ptr)

\* A Vec::with_capacity that is granted whatever it asks for.
VecWithCapacityUnchecked(m, of, size, n, limit) ==
    IF n = UsizeZero
    THEN [ok |-> TRUE, mem |-> m, val |-> [ptr |-> 0, cap |-> n, len |-> 0]]
    ELSE LET a == Alloc(m, [kind |-> of, size |-> n, elems |-> <<>>])
         IN  [ok |-> TRUE, mem |-> a.mem, val |-> [ptr |-> a.ptr, cap |-> n, len |-> 0]]

\* Vec::<T>::with_capacity(n), T of `size` bytes: a zero capacity allocates
\* nothing; otherwise n * size bytes are requested, and a request the allocator
\* refuses ends the process in handle_alloc_error (ok = FALSE, no Vec).
\* `of` names the buffer's kind: "vec" for Vec<String>, "workers" for Vec<Worker>.
VecWithCapacity(m, of, size, n, limit) ==
    IF n = UsizeZero
    THEN [ok |-> TRUE, mem |-> m, val |-> [ptr |-> 0, cap |-> n, len |-> 0]]
    ELSE IF UsizeLess(limit, UsizeMul(n, size))
    THEN [ok |-> FALSE, mem |-> m, val |-> [ptr |-> 0, cap |-> UsizeZero, len |-> 0]]
    ELSE LET a == Alloc(m, [kind |-> of, size |-> n, elems |-> <<>>])
         IN  [ok |-> TRUE, mem |-> a.mem, val |-> [ptr |-> a.ptr, cap |-> n, len |-> 0]]

\* The elements of a Vec
Items(m, v) == IF v.ptr = 0 THEN <<>> ELSE SubSeq(m.heap[v.ptr].elems, 1, v.len)

\* Vec::push within the reserved capacity
Push(m, v, x) ==
    [mem |-> [m EXCEPT !.heap[v.ptr].elems = Append(@, x)],
     val |-> [v EXCEPT !.len = @ + 1]]

\* Vec::capacity
capacity(v) == v.cap

DropVec(m, v) == IF v.ptr = 0 THEN m ELSE Free(m, v.ptr)

----------------------------------------------------------------------------
(* The record types of the examples and their glue *)

\* Drop glue of Config: every owned field is dropped.
DropConfig(m, c) ==
    LET m1 == IF "path" \in DOMAIN c THEN DropString(m, c.path) ELSE m
        m2 == IF "very_long_vector" \in DOMAIN c THEN DropVec(m1, c.very_long_vector) ELSE m1
    IN  IF "very_large_vec" \in DOMAIN c THEN DropVec(m2, c.very_large_vec) ELSE m2

\* Drop glue of Versioned<Config>
DropVersioned(m, v) == DropConfig(m, v.obj)

\* A clone that copies the struct's bits and so shares the buffer.
ConfigCloneShallow(m, c) == [mem |-> m, val |-> c]

\* #[derive(Clone)] on Config { path: String }: field-wise clone.
ConfigClone(m, c) ==
    LET s == StringClone(m, c.path)
    IN  [mem |-> s.mem, val |-> [path |-> s.val]]

\* A validity check that accepts everything.
is_valid_config_always(config) == TRUE

\* fn is_valid_config(config: &Config) -> bool { !config.path.is_empty() }
is_valid_config(config) == ~ is_empty(config.path)

\* A wrapper that rebuilds the payload and loses the reserved capacity.
save_config_version_rebuilt(config) ==
    [version |-> 1,
     obj |-> IF "very_long_vector" \in DOMAIN config
             THEN [config EXCEPT !.very_long_vector.cap = UsizeZero]
             ELSE config]

\* fn save_config_version(config: Config) -> Versioned<Config>
save_config_version(config) == [version |-> 1, obj |-> config]

\* Unwinding or returning from main: every live binding of `order` is dropped in turn.
RECURSIVE DropLocals(_, _, _)
DropLocals(m, l, order) ==
    IF order = <<>> THEN m
    ELSE LET b == Head(order)
             m1 == IF ~ IsLive(l, b) THEN m
                   ELSE IF "obj" \in DOMAIN l[b].val THEN DropVersioned(m, l[b].val)
                   ELSE DropConfig(m, l[b].val)
         IN  DropLocals(m1, l, Tail(order))

AllDropped(l) == [b \in DOMAIN l |-> IF l[b].st = "live" THEN Dropped ELSE l[b]]

----------------------------------------------------------------------------
(* Example A: examples/example_1.rs *)

InitA ==
    /\ example = "A"
    /\ memLimit = USIZE_MAX
    /\ input \in [path : PathInputs \cup {NginxPath}, cap : {UsizeZero}]
    /\ LET s == StringFrom(EmptyMem, input.path)
       IN  /\ mem = s.mem
           /\ locals = ("config" :> Live([path |-> s.val]))
    /\ pc = "match"

\* match is_valid_config(&config) { true => println!(..), false => println!(..) }
A_Match ==
    /\ example = "A" /\ pc = "match"
    /\ touched' = {"config"}
    /\ stdout' = Append(stdout, IF is_valid_config(locals["config"].val)
                                THEN "Valid config" ELSE "Invalid config")
    /\ pc' = "exit"
    /\ UNCHANGED <<example, memLimit, input, locals, mem, status, task, counts>>

\* main returns: config is dropped
A_Exit ==
    /\ example = "A" /\ pc = "exit"
    /\ mem' = DropLocals(mem, locals, <<"config">>)
    /\ locals' = AllDropped(locals)
    /\ touched' = {}
    /\ status' = "exit0"
    /\ pc' = "done"
    /\ UNCHANGED <<example, memLimit, input, stdout, task, counts>>

----------------------------------------------------------------------------
(* Example C: examples/example_3.rs *)

BindingsC == <<"versioned_config", "save_config_version.config", "config">>

\* Config { path: String::from(..), very_long_vector: Vec::with_capacity(..) }
NewConfigC(in, limit) ==
    LET s == StringFrom(EmptyMem, in.path)
        v == VecWithCapacity(s.mem, "vec", SizeOfString, in.cap, limit)
    IN  [ok |-> v.ok, mem |-> v.mem, val |-> [path |-> s.val, very_long_vector |-> v.val]]

InitC ==
    /\ example = "C"
    /\ memLimit \in MemLimits
    /\ input \in [path : PathInputs \cup {NginxPath}, cap : CapInputs]
    /\ mem = EmptyMem
    /\ locals = [b \in {"config", "save_config_version.config", "versioned_config"} |-> Uninit]
    /\ pc = "new"

\* let config = Config { .. }: the process aborts here if the Vec is refused
C_New ==
    /\ example = "C" /\ pc = "new"
    /\ LET c == NewConfigC(input, memLimit)
       IN  /\ mem' = c.mem
           /\ IF c.ok
              THEN /\ locals' = [locals EXCEPT !["config"] = Live(c.val)]
                   /\ pc' = "call"
                   /\ UNCHANGED status
              ELSE /\ pc' = "done"
                   /\ status' = "abort"
                   /\ UNCHANGED locals
    /\ touched' = {}
    /\ UNCHANGED <<example, memLimit, input, stdout, task, counts>>

\* save_config_version(config): the argument is moved into the parameter
C_Call ==
    /\ example = "C" /\ pc = "call"
    /\ locals' = Move(locals, "config", "save_config_version.config")
    /\ touched' = {"config"}
    /\ pc' = "in_call"
    /\ UNCHANGED <<example, memLimit, input, mem, stdout, status, task, counts>>

\* Versioned { version: 1, obj: config } is returned and bound to versioned_config
C_Return ==
    /\ example = "C" /\ pc = "in_call"
    /\ locals' = [locals EXCEPT
                    !["versioned_config"] =
                        Live(save_config_version(locals["save_config_version.config"].val)),
                    !["save_config_version.config"] = Moved]
    /\ touched' = {"save_config_version.config"}
    /\ pc' = "assert1"
    /\ UNCHANGED <<example, memLimit, input, mem, stdout, status, task, counts>>

\* The three assert_eq! of main; a failed one panics and unwinds.
AssertC(at) ==
    LET w == locals["versioned_config"].val
    IN  CASE at = "assert1" -> w.version = 1
          [] at = "assert2" -> Bytes(mem, w.obj.path) = NginxPath
          [] at = "assert3" -> capacity(w.obj.very_long_vector) = CAPACITY

NextAssertC(at) ==
    CASE at = "assert1" -> "assert2"
      [] at = "assert2" -> "assert3"
      [] at = "assert3" -> "exit"

C_Assert ==
    /\ example = "C" /\ pc \in {"assert1", "assert2", "assert3"}
    /\ touched' = {"versioned_config"}
    /\ IF AssertC(pc)
       THEN /\ pc' = NextAssertC(pc)
            /\ UNCHANGED <<locals, mem, status>>
       ELSE /\ pc' = "done"
            /\ status' = "panic"
            /\ mem' = DropLocals(mem, locals, BindingsC)
            /\ locals' = AllDropped(locals)
    /\ UNCHANGED <<example, memLimit, input, stdout, task, counts>>

\* main returns: versioned_config is dropped, and with it the Config it owns
C_Exit ==
    /\ example = "C" /\ pc = "exit"
    /\ mem' = DropLocals(mem, locals, BindingsC)
    /\ locals' = AllDropped(locals)
    /\ touched' = {}
    /\ status' = "exit0"
    /\ pc' = "done"
    /\ UNCHANGED <<example, memLimit, input, stdout, task, counts>>

----------------------------------------------------------------------------
(* Example D: example_2.rs *)

BindingsD == <<"version_1", "save_config_version.config", "clone.tmp", "config">>

InitD ==
    /\ example = "D"
    /\ memLimit = USIZE_MAX
    /\ input \in [path : PathInputs \cup {NginxPath}, cap : {UsizeZero}]
    /\ LET s == StringFrom(EmptyMem, input.path)
       IN  /\ mem = s.mem
           /\ locals = [b \in {"config", "clone.tmp", "save_config_version.config", "version_1"} |->
                          IF b = "config" THEN Live([path |-> s.val]) ELSE Uninit]
    /\ pc = "clone"

\* config.clone(): the argument expression, evaluated into a temporary
D_Clone ==
    /\ example = "D" /\ pc = "clone"
    /\ LET c == ConfigClone(mem, locals["config"].val)
       IN  /\ mem' = c.mem
           /\ locals' = [locals EXCEPT !["clone.tmp"] = Live(c.val)]
    /\ touched' = {"config"}
    /\ pc' = "call"
    /\ UNCHANGED <<example, memLimit, input, stdout, status, task, counts>>

\* save_config_version(<the clone>): the temporary is moved into the parameter
D_Call ==
    /\ example = "D" /\ pc = "call"
    /\ locals' = Move(locals, "clone.tmp", "save_config_version.config")
    /\ touched' = {"clone.tmp"}
    /\ pc' = "in_call"
    /\ UNCHANGED <<example, memLimit, input, mem, stdout, status, task, counts>>

\* Versioned { version: 1, obj: config } is returned and bound to version_1
D_Return ==
    /\ example = "D" /\ pc = "in_call"
    /\ locals' = [locals EXCEPT
                    !["version_1"] =
                        Live(save_config_version(locals["save_config_version.config"].val)),
                    !["save_config_version.config"] = Moved]
    /\ touched' = {"save_config_version.config"}
    /\ pc' = "assert1"
    /\ UNCHANGED <<example, memLimit, input, mem, stdout, status, task, counts>>

AssertD(at) ==
    LET w == locals["version_1"].val
    IN  CASE at = "assert1" -> w.version = 1
          [] at = "assert2" -> Bytes(mem, w.obj.path) = NginxPath

D_Assert ==
    /\ example = "D" /\ pc \in {"assert1", "assert2"}
    /\ touched' = {"version_1"}
    /\ IF AssertD(pc)
       THEN /\ pc' = IF pc = "assert1" THEN "assert2" ELSE "exit"
            /\ UNCHANGED <<locals, mem, status>>
       ELSE /\ pc' = "done"
            /\ status' = "panic"
            /\ mem' = DropLocals(mem, locals, BindingsD)
            /\ locals' = AllDropped(locals)
    /\ UNCHANGED <<example, memLimit, input, stdout, task, counts>>

\* main returns: version_1 is dropped, then config
D_Exit ==
    /\ example = "D" /\ pc = "exit"
    /\ mem' = DropLocals(mem, locals, BindingsD)
    /\ locals' = AllDropped(locals)
    /\ touched' = {}
    /\ status' = "exit0"
    /\ pc' = "done"
    /\ UNCHANGED <<example, memLimit, input, stdout, task, counts>>

----------------------------------------------------------------------------
(* Arc<Config> *)

\* Arc::new(data): one ArcInner block, strong count 1, the data moved into it
ArcNew(m, data) ==
    LET a == Alloc(m, [kind |-> "arc", strong |-> 1, data |-> data])
    IN  [mem |-> a.mem, val |-> [arc |-> a.ptr]]

\* Deref of Arc<Config>
ArcDeref(m, h) == m.heap[h.arc].data

\* A duplicate that hands out the pointer without counting it.
ArcCloneUncounted(m, h) == [mem |-> m, val |-> h]

\* A duplicate that copies the Config into a block of its own.
ArcCloneDeep(m, h) ==
    LET v == VecWithCapacityUnchecked(m, "vec", SizeOfString,
                                      capacity(ArcDeref(m, h).very_large_vec), USIZE_MAX)
    IN  ArcNew(v.mem, [very_large_vec |-> v.val])

\* Arc::clone: the strong count goes up by one, the same block is aliased
ArcClone(m, h) ==
    [mem |-> [m EXCEPT !.heap[h.arc].strong = @ + 1, !.incs = @ + 1], val |-> h]

\* A drop that frees the block whatever the count.
ArcDropEager(m, h) ==
    IF h.arc \in DOMAIN m.heap
    THEN Free(DropConfig([m EXCEPT !.decs = @ + 1], m.heap[h.arc].data), h.arc)
    ELSE [m EXCEPT !.decs = @ + 1]

\* Drop of an Arc: the strong count goes down by one; the holder that brings it
\* to zero drops the data and frees the block
ArcDrop(m, h) ==
    LET m1 == [m EXCEPT !.heap[h.arc].strong = @ - 1, !.decs = @ + 1]
    IN  IF m1.heap[h.arc].strong = 0
        THEN Free(DropConfig(m1, m1.heap[h.arc].data), h.arc)
        ELSE m1

\* PartialEq of Vec<String>: same length and equal elements
VecEq(m, a, b) ==
    /\ a.len = b.len
    /\ \/ a.len = 0
       \/ SubSeq(m.heap[a.ptr].elems, 1, a.len) = SubSeq(m.heap[b.ptr].elems, 1, b.len)

\* #[derive(PartialEq)] on Config { very_large_vec }
ConfigEq(m, c, d) == VecEq(m, c.very_large_vec, d.very_large_vec)

\* PartialEq of Arc<Config>: equality of the values pointed to
ArcEq(m, g, h) == ConfigEq(m, ArcDeref(m, g), ArcDeref(m, h))

\* #[derive(Clone)] on Worker { config: Arc<Config> }
WorkerClone(m, w) ==
    LET c == ArcClone(m, w.config)
    IN  [mem |-> c.mem, val |-> [config |-> c.val]]

DropWorker(m, w) == ArcDrop(m, w.config)

RECURSIVE DropWorkers(_, _)
DropWorkers(m, ws) ==
    IF ws = <<>> THEN m ELSE DropWorkers(DropWorker(m, Head(ws)), Tail(ws))

----------------------------------------------------------------------------
(* Example E: examples/example_5.rs *)

\* .take(100)
NumWorkers == 100

InitE ==
    /\ example = "E"
    /\ memLimit \in MemLimits
    /\ input = [path |-> <<>>, cap |-> CAPACITY]
    /\ mem = EmptyMem
    /\ locals = [b \in {"config@18", "config@27", "iter", "collect.vec", "workers"} |-> Uninit]
    /\ pc = "new"

\* let config = Config { very_large_vec: Vec::with_capacity(CAPACITY) }: the
\* process aborts here if the Vec is refused
E_New ==
    /\ example = "E" /\ pc = "new"
    /\ LET v == VecWithCapacity(mem, "vec", SizeOfString, input.cap, memLimit)
       IN  /\ mem' = v.mem
           /\ IF v.ok
              THEN /\ locals' = [locals EXCEPT !["config@18"] = Live([very_large_vec |-> v.val])]
                   /\ pc' = "arc_new"
                   /\ UNCHANGED status
              ELSE /\ pc' = "done"
                   /\ status' = "abort"
                   /\ UNCHANGED locals
    /\ touched' = {}
    /\ UNCHANGED <<example, memLimit, input, stdout, task, counts>>

\* let config = Arc::new(config);
E_ArcNew ==
    /\ example = "E" /\ pc = "arc_new"
    /\ LET a == ArcNew(mem, locals["config@18"].val)
       IN  /\ mem' = a.mem
           /\ locals' = [locals EXCEPT !["config@18"] = Moved, !["config@27"] = Live(a.val)]
    /\ touched' = {"config@18"}
    /\ pc' = "repeat"
    /\ UNCHANGED <<example, memLimit, input, stdout, status, task, counts>>

\* iter::repeat(Worker { config: config.clone() }).take(100): the Worker is built
\* once and moved into the Repeat adapter; collect() reserves the Vec<Worker>
\* for the 100 items the adapter announces
E_Repeat ==
    /\ example = "E" /\ pc = "repeat"
    /\ LET c == ArcClone(mem, locals["config@27"].val)
           v == VecWithCapacity(c.mem, "workers", SizeOfWorker, Usize(NumWorkers), memLimit)
       IN  /\ mem' = v.mem
           /\ IF v.ok
              THEN /\ locals' = [locals EXCEPT
                                   !["iter"] = Live([element |-> [config |-> c.val],
                                                     n |-> NumWorkers]),
                                   !["collect.vec"] = Live(v.val)]
                   /\ pc' = "collect"
                   /\ UNCHANGED status
              ELSE /\ locals' = [locals EXCEPT
                                   !["iter"] = Live([element |-> [config |-> c.val],
                                                     n |-> NumWorkers])]
                   /\ pc' = "done"
                   /\ status' = "abort"
    /\ touched' = {"config@27"}
    /\ UNCHANGED <<example, memLimit, input, stdout, task, counts>>

\* Take::next with n > 0: n is decremented and Repeat::next returns
\* element.clone(), which collect() pushes
E_CollectNext ==
    /\ example = "E" /\ pc = "collect"
    /\ locals["iter"].val.n > 0
    /\ LET it == locals["iter"].val
           w == WorkerClone(mem, it.element)
           v == Push(w.mem, locals["collect.vec"].val, w.val)
       IN  /\ mem' = v.mem
           /\ locals' = [locals EXCEPT
                           !["iter"] = Live([it EXCEPT !.n = @ - 1]),
                           !["collect.vec"] = Live(v.val)]
    /\ touched' = {"iter"}
    /\ UNCHANGED <<example, memLimit, input, pc, stdout, status, task, counts>>

\* Take::next with n = 0 returns None: collect() returns the Vec, which is bound
\* to workers, and the adapter is dropped with the Worker it repeats
E_CollectEnd ==
    /\ example = "E" /\ pc = "collect"
    /\ locals["iter"].val.n = 0
    /\ mem' = DropWorker(mem, locals["iter"].val.element)
    /\ locals' = [Move(locals, "collect.vec", "workers") EXCEPT !["iter"] = Dropped]
    /\ touched' = {"iter"}
    /\ pc' = "assert1"
    /\ UNCHANGED <<example, memLimit, input, stdout, status, task, counts>>

\* workers[i] of the source is ws[i + 1] here
AssertE(at) ==
    LET ws == Items(mem, locals["workers"].val)
    IN  CASE at = "assert1" ->
               capacity(ArcDeref(mem, ws[1].config).very_large_vec) = CAPACITY
          [] at = "assert2" -> ArcEq(mem, ws[1].config, ws[2].config)

E_Assert ==
    /\ example = "E" /\ pc \in {"assert1", "assert2"}
    /\ touched' = {"workers"}
    /\ IF AssertE(pc)
       THEN /\ pc' = IF pc = "assert1" THEN "assert2" ELSE "exit"
            /\ UNCHANGED <<locals, mem, status>>
       ELSE /\ pc' = "done"
            /\ status' = "panic"
            /\ mem' = ArcDrop(DropVec(DropWorkers(mem, Items(mem, locals["workers"].val)),
                                       locals["workers"].val),
                               locals["config@27"].val)
            /\ locals' = AllDropped(locals)
    /\ UNCHANGED <<example, memLimit, input, stdout, task, counts>>

\* main returns: workers is dropped first, one element after the other
E_DropWorker ==
    /\ example = "E" /\ pc = "exit"
    /\ locals["workers"].val.len > 0
    /\ LET v == locals["workers"].val
           m1 == DropWorker(mem, Head(Items(mem, v)))
       IN  /\ mem' = [m1 EXCEPT !.heap[v.ptr].elems = Tail(@)]
           /\ locals' = [locals EXCEPT !["workers"] = Live([v EXCEPT !.len = @ - 1])]
    /\ touched' = {}
    /\ UNCHANGED <<example, memLimit, input, pc, stdout, status, task, counts>>

\* then the Vec's buffer is freed, and last the binding config of line 27 is dropped
E_Exit ==
    /\ example = "E" /\ pc = "exit"
    /\ locals["workers"].val.len = 0
    /\ mem' = ArcDrop(DropVec(mem, locals["workers"].val), locals["config@27"].val)
    /\ locals' = AllDropped(locals)
    /\ touched' = {}
    /\ status' = "exit0"
    /\ pc' = "done"
    /\ UNCHANGED <<example, memLimit, input, stdout, task, counts>>

----------------------------------------------------------------------------
(* Example F: example_4.rs *)

TaskFinished == task.pc \in {"complete", "panicked"}

\* unwrap that maps an Err to a default value instead of panicking.
unwrap_or_default(r) == [panics |-> FALSE]

\* Result::unwrap: the value of an Ok, a panic on an Err
unwrap(r) == [panics |-> r # "ok"]

\* What awaiting the JoinHandle yields: Ok(output), or Err(JoinError) if the task panicked
JoinResult(t) == IF t.pc = "complete" THEN "ok" ELSE "err"

\* A poll of the JoinHandle that reports the task ready whether it is or not.
JoinReadyAlways(t) == TRUE

\* Poll of the JoinHandle: ready once the task has completed or panicked
JoinReady(t) == t.pc \in {"complete", "panicked"}

InitF ==
    /\ example = "F"
    /\ memLimit = USIZE_MAX
    /\ input = [path |-> <<>>, cap |-> UsizeZero]
    /\ mem = EmptyMem
    /\ locals = [b \in {"client", "task.client"} |-> Uninit]
    /\ pc = "new"

\* let client = Client::new();
F_ClientNew ==
    /\ example = "F" /\ pc = "new"
    /\ LET a == Alloc(mem, [kind |-> "client"])
       IN  /\ mem' = a.mem
           /\ locals' = [locals EXCEPT !["client"] = Live([ptr |-> a.ptr])]
    /\ touched' = {}
    /\ pc' = "spawn"
    /\ UNCHANGED <<example, memLimit, input, stdout, status, task, counts>>

\* tokio::spawn(async move { .. }): the block captures client by value and the
\* future is handed to the runtime
F_Spawn ==
    /\ example = "F" /\ pc = "spawn"
    /\ locals' = Move(locals, "client", "task.client")
    /\ task' = [task EXCEPT !.pc = "scheduled"]
    /\ counts' = [counts EXCEPT !.spawns = @ + 1]
    /\ touched' = {"client"}
    /\ pc' = "await"
    /\ UNCHANGED <<example, memLimit, input, mem, stdout, status>>

\* .await on the JoinHandle, first poll: main goes on if the task is finished
\* and suspends otherwise
F_Await ==
    /\ example = "F" /\ pc = "await"
    /\ counts' = [counts EXCEPT !.awaits = @ + 1]
    /\ pc' = IF JoinReady(task) THEN "unwrap" ELSE "suspended"
    /\ touched' = {}
    /\ UNCHANGED <<example, memLimit, input, locals, mem, stdout, status, task>>

\* the finished task wakes main
F_Wake ==
    /\ example = "F" /\ pc = "suspended"
    /\ JoinReady(task)
    /\ pc' = "unwrap"
    /\ touched' = {}
    /\ UNCHANGED <<example, memLimit, input, locals, mem, stdout, status, task, counts>>

\* .unwrap() of the join result; the Response of an Ok is dropped and main returns
F_JoinUnwrap ==
    /\ example = "F" /\ pc = "unwrap"
    /\ status' = IF unwrap(JoinResult(task)).panics THEN "panic" ELSE "exit0"
    /\ pc' = "done"
    /\ touched' = {}
    /\ UNCHANGED <<example, memLimit, input, locals, mem, stdout, task, counts>>

\* the task's first poll: client.get(URL).send() puts the request on the wire
T_Send ==
    /\ example = "F" /\ task.pc = "scheduled"
    /\ task' = [task EXCEPT !.pc = "sending"]
    /\ counts' = [counts EXCEPT !.sends = @ + 1]
    /\ touched' = {"task.client"}
    /\ UNCHANGED <<example, memLimit, input, pc, locals, mem, stdout, status>>

\* the network answers: send().await yields Ok(Response) or Err(reqwest::Error)
T_NetReturn ==
    /\ example = "F" /\ task.pc = "sending"
    /\ \E r \in {"ok", "err"} : task' = [task EXCEPT !.pc = "unwrap", !.net = r]
    /\ touched' = {}
    /\ UNCHANGED <<example, memLimit, input, pc, locals, mem, stdout, status, counts>>

\* .unwrap() inside the task: the task completes with the Response or panics;
\* either way the future is dropped, and the client it captured with it
T_Unwrap ==
    /\ example = "F" /\ task.pc = "unwrap"
    /\ task' = IF unwrap(task.net).panics
               THEN [task EXCEPT !.pc = "panicked", !.out = "panic"]
               ELSE [task EXCEPT !.pc = "complete", !.out = "response"]
    /\ mem' = Free(mem, locals["task.client"].val.ptr)
    /\ locals' = [locals EXCEPT !["task.client"] = Dropped]
    /\ touched' = {}
    /\ UNCHANGED <<example, memLimit, input, pc, stdout, status, counts>>

MainF == F_ClientNew \/ F_Spawn \/ F_Await \/ F_Wake \/ F_JoinUnwrap

TaskF == T_Send \/ T_Unwrap

----------------------------------------------------------------------------
(* The programs *)

NoTask == [pc |-> "none", net |-> "none", out |-> "none"]

Init ==
    /\ touched = {}
    /\ stdout = <<>>
    /\ status = "running"
    /\ task = NoTask
    /\ counts = [spawns |-> 0, awaits |-> 0, sends |-> 0]
    /\ \/ InitA
       \/ InitC
       \/ InitD
       \/ InitE
       \/ InitF

Next ==
    \/ A_Match
    \/ A_Exit
    \/ C_New
    \/ C_Call
    \/ C_Return
    \/ C_Assert
    \/ C_Exit
    \/ D_Clone
    \/ D_Call
    \/ D_Return
    \/ D_Assert
    \/ D_Exit
    \/ E_New
    \/ E_ArcNew
    \/ E_Repeat
    \/ E_CollectNext
    \/ E_CollectEnd
    \/ E_Assert
    \/ E_DropWorker
    \/ E_Exit
    \/ MainF
    \/ TaskF
    \/ T_NetReturn

Spec == Init /\ [][Next]_vars

\* A fair executor runs main and the task whenever they can run, and the
\* network call returns.
FairSpec == Spec /\ WF_vars(MainF) /\ WF_vars(TaskF) /\ WF_vars(T_NetReturn)

----------------------------------------------------------------------------
(* Properties *)

Owners == {b \in DOMAIN locals : locals[b].st = "live"}

\* C1: is_valid_config is false exactly for the empty path, true for every
\* non-empty one; main prints the matching line, "Valid config" for
\* "/etc/nginx/nginx.conf".
C1_ValidIffNonEmpty ==
    example = "A" =>
        /\ IsLive(locals, "config") =>
              /\ Bytes(mem, locals["config"].val.path) = input.path
              /\ is_valid_config(locals["config"].val) = (input.path # <<>>)
        /\ pc \in {"exit", "done"} =>
              /\ (stdout = <<"Invalid config">>) = (input.path = <<>>)
              /\ (stdout = <<"Valid config">>) = (input.path # <<>>)
        /\ (pc \in {"exit", "done"} /\ input.path = NginxPath) => stdout = <<"Valid config">>

C1_Witness ==
    /\ example = "A" /\ pc = "done"
    /\ input.path = NginxPath
    /\ stdout = <<"Valid config">>

\* C2: the wrapper save_config_version returns has version 1 and holds the very
\* record that was passed in: same path, same vector with the capacity it had,
\* and no allocation was made or freed on the way.
C2_WrapperHoldsSameData ==
    (example = "C" /\ pc \in {"assert1", "assert2", "assert3", "exit"}) =>
        LET w == locals["versioned_config"].val
        IN  /\ w.version = 1
            /\ w.obj = NewConfigC(input, memLimit).val
            /\ Bytes(mem, w.obj.path) = input.path
            /\ capacity(w.obj.very_long_vector) = input.cap
            /\ mem = NewConfigC(input, memLimit).mem
            /\ pc = "exit" => capacity(w.obj.very_long_vector) = CAPACITY

C2_Witness ==
    /\ example = "C" /\ pc = "exit"
    /\ input = [path |-> NginxPath, cap |-> CAPACITY]
    /\ capacity(locals["versioned_config"].val.obj.very_long_vector) = <<184467, 4407370>>

\* C3: in Example C the record, once built, has exactly one owner in every
\* state of main's body: main's config before the call, the parameter during
\* it, the returned wrapper after it; config is moved-from from the call on and
\* no later statement names it; at main's return the record is dropped once.
\* (A run that aborts while the record is built never has a record to own.)
C3_SingleOwner ==
    example = "C" =>
        /\ pc \notin {"new", "done"} => Cardinality(Owners) = 1
        /\ pc = "call" => Owners = {"config"}
        /\ pc = "in_call" => Owners = {"save_config_version.config"}
        /\ pc \in {"assert1", "assert2", "assert3", "exit"} => Owners = {"versioned_config"}
        /\ (pc \notin {"new", "call"} /\ status # "abort") => locals["config"].st = "moved"
        /\ pc \notin {"call", "in_call"} => "config" \notin touched
        /\ (pc = "new" \/ status = "abort") => Owners = {}
        /\ (pc = "done" /\ status # "abort") => (Owners = {} /\ DOMAIN mem.heap = {})

C3_Witness ==
    /\ example = "C" /\ pc = "assert1"
    /\ Owners = {"versioned_config"}
    /\ locals["config"].st = "moved"
    /\ locals["save_config_version.config"].st = "moved"

\* The Config that travels to the wrapper in Example D, wherever it is.
CopyD ==
    IF IsLive(locals, "clone.tmp") THEN locals["clone.tmp"].val
    ELSE IF IsLive(locals, "save_config_version.config")
         THEN locals["save_config_version.config"].val
         ELSE locals["version_1"].val.obj

\* C4: in Example D main's config stays valid and unchanged after the call; the
\* duplicate equals the original when it is made; the wrapper has version 1 and
\* the original's path; and the two own different buffers, so that writing to
\* one leaves the other as it was.
C4_CloneIndependent ==
    (example = "D" /\ pc # "done") =>
        /\ IsLive(locals, "config")
        /\ Bytes(mem, locals["config"].val.path) = input.path
        /\ pc = "call" =>
              Bytes(mem, locals["clone.tmp"].val.path) = Bytes(mem, locals["config"].val.path)
        /\ pc \in {"assert1", "assert2", "exit"} =>
              /\ locals["version_1"].val.version = 1
              /\ Bytes(mem, locals["version_1"].val.obj.path) = input.path
        /\ pc = "exit" => Bytes(mem, locals["version_1"].val.obj.path) = NginxPath
        /\ (pc # "clone" /\ input.path # <<>>) =>
              LET o == locals["config"].val.path
                  c == CopyD.path
                  wc == [mem EXCEPT !.heap[c.ptr].bytes[1] = "#"]
                  wo == [mem EXCEPT !.heap[o.ptr].bytes[1] = "#"]
              IN  /\ o.ptr # c.ptr
                  /\ Bytes(wc, o) = input.path /\ Bytes(wc, c) # input.path
                  /\ Bytes(wo, c) = input.path /\ Bytes(wo, o) # input.path

C4_Witness ==
    /\ example = "D" /\ pc = "exit"
    /\ IsLive(locals, "config")
    /\ Bytes(mem, locals["config"].val.path) = NginxPath
    /\ locals["version_1"].val.version = 1
    /\ locals["version_1"].val.obj.path.ptr # locals["config"].val.path.ptr

\* Every Arc handle a binding of Example E holds.
HandlesE ==
    (IF IsLive(locals, "config@27") THEN <<locals["config@27"].val>> ELSE <<>>)
    \o (IF IsLive(locals, "iter") THEN <<locals["iter"].val.element.config>> ELSE <<>>)
    \o (IF IsLive(locals, "collect.vec")
        THEN [i \in 1..locals["collect.vec"].val.len |->
                Items(mem, locals["collect.vec"].val)[i].config]
        ELSE <<>>)
    \o (IF IsLive(locals, "workers")
        THEN [i \in 1..locals["workers"].val.len |->
                Items(mem, locals["workers"].val)[i].config]
        ELSE <<>>)

\* C5: in Example E all workers alias one configuration: any two are equal and
\* report CAPACITY; once the configuration is built the program has made one
\* configuration buffer, and one shared block from Arc::new on, and no more at
\* any point; both are live until main's last drop, and every handle points to
\* that block.
C5_OneAllocation ==
    example = "E" =>
        /\ AllocCount(mem, "vec") = (IF pc = "new" \/ status = "abort" THEN 0 ELSE 1)
        /\ AllocCount(mem, "arc") =
              (IF pc \in {"new", "arc_new"} \/ status = "abort" THEN 0 ELSE 1)
        /\ pc # "done" => /\ LiveCount(mem, "vec") = AllocCount(mem, "vec")
                          /\ LiveCount(mem, "arc") = AllocCount(mem, "arc")
        /\ \A i \in 1..Len(HandlesE) : HandlesE[i] = HandlesE[1]
        /\ pc \in {"assert1", "assert2"} => locals["workers"].val.len = NumWorkers
        /\ IsLive(locals, "workers") =>
              LET ws == Items(mem, locals["workers"].val)
              IN  \A i, j \in 1..Len(ws) :
                     /\ ws[i].config.arc = ws[j].config.arc
                     /\ ArcEq(mem, ws[i].config, ws[j].config)
                     /\ capacity(ArcDeref(mem, ws[i].config).very_large_vec) = CAPACITY
                     /\ capacity(ArcDeref(mem, ws[j].config).very_large_vec) = CAPACITY

C5_Witness ==
    /\ example = "E" /\ pc = "assert2"
    /\ locals["workers"].val.len = NumWorkers
    /\ ArcEq(mem, Items(mem, locals["workers"].val)[1].config,
                   Items(mem, locals["workers"].val)[NumWorkers].config)
    /\ AllocCount(mem, "vec") = 1 /\ AllocCount(mem, "arc") = 1

\* C6: in Example F the client is reachable from the spawned task alone once it
\* is spawned: main's binding is moved-from, main names it in no statement
\* after the spawn, and in no state do both contexts hold it.
C6_ClientOnlyInTask ==
    example = "F" =>
        /\ ~ (IsLive(locals, "client") /\ IsLive(locals, "task.client"))
        /\ counts.spawns > 0 =>
              /\ locals["client"].st = "moved"
              /\ "client" \in touched => (pc = "await" /\ counts.awaits = 0)
              /\ \A p \in DOMAIN mem.heap :
                    IsLive(locals, "task.client") /\ locals["task.client"].val.ptr = p
        /\ counts.spawns = 0 => ~ IsLive(locals, "task.client")

C6_Witness ==
    /\ example = "F" /\ pc = "suspended" /\ task.pc = "sending"
    /\ IsLive(locals, "task.client")
    /\ locals["client"].st = "moved"
    /\ touched = {"task.client"}

\* C7: in Example F the network call decides the outcome: main returns normally
\* exactly when the call succeeded and panics exactly when it failed; a failed
\* call panics the task, the await yields the error and main panics on it; the
\* request is sent once.
C7_OutcomeFollowsCall ==
    example = "F" =>
        /\ (status = "exit0") = (pc = "done" /\ task.net = "ok")
        /\ (status = "panic") = (pc = "done" /\ task.net = "err")
        /\ (task.net = "err" /\ TaskFinished) =>
              (task.pc = "panicked" /\ JoinResult(task) = "err")
        /\ (task.net = "ok" /\ TaskFinished) =>
              (task.pc = "complete" /\ JoinResult(task) = "ok")
        /\ counts.sends <= 1
        /\ pc = "done" => counts.sends = 1

C7_Witness ==
    /\ example = "F" /\ pc = "done"
    /\ task.net = "err" /\ task.pc = "panicked"
    /\ status = "panic"

C8_AwaitSafety ==
    example = "F" =>
        /\ pc \in {"unwrap", "done"} => TaskFinished
        /\ counts.spawns <= 1 /\ counts.awaits <= 1
        /\ pc \in {"await", "suspended", "unwrap", "done"} => counts.spawns = 1
        /\ pc \in {"suspended", "unwrap", "done"} => counts.awaits = 1
        /\ task.pc # "none" => counts.spawns = 1

\* C8: main goes past the await only when the task has completed or panicked,
\* so it never exits before; one task is spawned and awaited once; and with a
\* fair executor and a network call that returns, main terminates.
C8_AwaitsThenTerminates ==
    /\ []C8_AwaitSafety
    /\ [](example = "F" => <>(pc = "done" /\ status # "running"))

C8_Witness ==
    /\ example = "F" /\ pc = "done" /\ status = "exit0"
    /\ task.pc = "complete"
    /\ counts = [spawns |-> 1, awaits |-> 1, sends |-> 1]

\* C9 as stated: building the N workers performs exactly N increments.
C9_Original ==
    (example = "E" /\ pc \in {"assert1", "assert2"}) => mem.incs = NumWorkers

\* C9 amended: the handle is duplicated once for the Worker handed to
\* iter::repeat and once more for each collected worker, N + 1 increments in
\* all; the repeated Worker is dropped when collect ends, which leaves the count
\* at N + 1: the binding and the N workers.
C9_IncrementsPerWorkerPlusOne ==
    example = "E" =>
        /\ pc = "collect" => mem.incs = 1 + locals["collect.vec"].val.len
        /\ pc \in {"assert1", "assert2"} =>
              /\ locals["workers"].val.len = NumWorkers
              /\ Len(Items(mem, locals["workers"].val)) = NumWorkers
              /\ mem.incs = NumWorkers + 1
              /\ mem.decs = 1
              /\ mem.heap[locals["config@27"].val.arc].strong = NumWorkers + 1

C9_Witness ==
    /\ example = "E" /\ pc = "assert1"
    /\ mem.incs = NumWorkers + 1
    /\ locals["workers"].val.len = NumWorkers

\* C10: the strong count equals the number of live holders in every state: 1
\* after Arc::new, one more per clone, one less per drop; the block and the
\* configuration in it exist exactly while some holder is live.
C10_CountEqualsHolders ==
    (example = "E" /\ AllocCount(mem, "arc") = 1) =>
        LET a == CHOOSE p \in 1..Len(mem.log) : mem.log[p] = "arc"
            n == Len(HandlesE)
        IN  /\ n > 0 =>
                  /\ a \in DOMAIN mem.heap
                  /\ mem.heap[a].strong = n
                  /\ mem.heap[a].strong = 1 + mem.incs - mem.decs
                  /\ mem.heap[a].data.very_large_vec.ptr \in DOMAIN mem.heap
            /\ n = 0 => (DOMAIN mem.heap = {} /\ mem.decs = mem.incs + 1)
            /\ pc = "repeat" => mem.heap[a].strong = 1
            /\ IsLive(locals, "config@27") => a \in DOMAIN mem.heap
            /\ (pc = "done") = (n = 0)

C10_Witness ==
    /\ example = "E" /\ pc = "done" /\ status = "exit0"
    /\ DOMAIN mem.heap = {}
    /\ mem.decs = NumWorkers + 2

====
